---- MODULE Spec2Model ----
(***************************************************************************)
(* Model of the recipe API (app/recipe/views.py): the tag, ingredient and  *)
(* recipe view sets, their ownership scoping and their query-parameter     *)
(* filters.  The database is three tables whose primary keys are the       *)
(* positions of the rows (ids are assigned in creation order and no row is *)
(* ever deleted).  Query-parameter strings are sequences of one-character  *)
(* strings, so that parsing them is computed, not assumed.                 *)
(* The wait_for_db management command (core/management/commands) is a      *)
(* sequential process of its own, with its program counter, its local      *)
(* db_conn, what it wrote to stdout and the seconds it slept; the database *)
(* server it waits for goes up and down on its own.                        *)
(***************************************************************************)
EXTENDS Integers, Sequences, FiniteSets

VARIABLES tags, ingredients, recipes, resp,
          pc, db_conn, stdout, slept, db_up

vars == <<tags, ingredients, recipes, resp, pc, db_conn, stdout, slept, db_up>>
db == <<tags, ingredients, recipes>>
api == <<tags, ingredients, recipes, resp>>
cmd == <<pc, db_conn, stdout, slept, db_up>>

\* ------------------------------------------------------------------ bounds

\* Most rows (tags + ingredients + recipes) the database holds.
MaxRecords == 3

\* Most failed connection attempts of one run of wait_for_db.
MaxWaits == 20

\* ------------------------------------------------------------- value sets

Users == {"u1", "u2"}
\* request.user of a request that carries no valid token
Anon == "anon"
Requesters == Users \cup {Anon}

\* A query parameter that the request does not carry.
Absent == <<"absent">>
NoImage == "none"

\* The response slot when no response is waiting to be read.
NoResp ==
    [op |-> "none", kind |-> "none", user |-> "none", query |-> <<>>,
     data |-> <<>>, status |-> "none", pk |-> 0, body |-> <<>>, image |-> NoImage]

\* A response, with the request it answers: the action and view set, the
\* requester, the query parameters, the request body (<<>> when there is
\* none), the id in the URL (0 on a collection route); then the HTTP
\* status, the ids of the records in the body, in order, and the body's
\* image field.
Response(op, kind, u, query, data, status, pk, body, image) ==
    [op |-> op, kind |-> kind, user |-> u, query |-> query, data |-> data,
     status |-> status, pk |-> pk, body |-> body, image |-> image]

\* A response without records: an error, or the unauthorized answer.
Refusal(op, kind, u, query, data, status, pk) ==
    Response(op, kind, u, query, data, status, pk, <<>>, NoImage)

\* --------------------------------------------------- parsing (pure helpers)

Digits == {"0", "1", "2", "3", "4", "5", "6", "7", "8", "9"}

DigitVal(c) ==
    CASE c = "0" -> 0 [] c = "1" -> 1 [] c = "2" -> 2 [] c = "3" -> 3
      [] c = "4" -> 4 [] c = "5" -> 5 [] c = "6" -> 6 [] c = "7" -> 7
      [] c = "8" -> 8 [] c = "9" -> 9 [] OTHER -> 0

RECURSIVE DecimalVal(_)
DecimalVal(s) ==
    IF s = <<>> THEN 0
    ELSE 10 * DecimalVal(SubSeq(s, 1, Len(s) - 1)) + DigitVal(s[Len(s)])

\* Python's int(str): an optional sign, then one or more decimal digits;
\* anything else raises ValueError (ok = FALSE).
PyInt(s) ==
    LET signed == Len(s) > 0 /\ s[1] \in {"-", "+"}
        digits == IF signed THEN Tail(s) ELSE s
        ok     == Len(digits) > 0 /\ \A i \in DOMAIN digits : digits[i] \in Digits
        mag    == IF ok THEN DecimalVal(digits) ELSE 0
    IN  [ok |-> ok, val |-> IF signed /\ s[1] = "-" THEN 0 - mag ELSE mag]

\* Python's str.split(','): the pieces between the commas, empty pieces kept.
RECURSIVE Split(_)
Split(s) ==
    IF \A i \in DOMAIN s : s[i] # ","
    THEN <<s>>
    ELSE LET i == CHOOSE k \in DOMAIN s :
                     s[k] = "," /\ \A j \in 1..(k - 1) : s[j] # ","
         IN  <<SubSeq(s, 1, i - 1)>> \o Split(SubSeq(s, i + 1, Len(s)))

\* Python truthiness of query_params.get(name): None and '' are falsy.
Truthy(param) == param # Absent /\ param # <<>>

\* ------------------------------------------------------------ query sets
\* A query set is a bag of rows: a function from the ids of a table to the
\* number of times the row occurs in the SQL result (a join repeats a row
\* once per matching related row; DISTINCT brings every count back to 1).

AttrTable(kind) == IF kind = "tag" THEN tags ELSE ingredients

\* The ids of `kind` that recipe r is associated with.
RecipeRefs(kind, r) ==
    IF kind = "tag" THEN recipes[r].tags ELSE recipes[r].ingredients

\* self.queryset: Tag.objects.all() / Ingredient.objects.all() / Recipe.objects.all()
AllRows(table) == [id \in DOMAIN table |-> 1]

\* AssignedOnly with the join left out.
AssignedOnly_NoJoin(kind, q) == q

\* queryset.filter(recipe__isnull=False): inner join with the recipes that
\* reference the row, recipes of every owner included.
AssignedOnly(kind, q) ==
    [id \in DOMAIN q |->
        q[id] * Cardinality({r \in DOMAIN recipes : id \in RecipeRefs(kind, r)})]

\* OwnedBy with the owner filter left out.
OwnedBy_Everyone(q, table, u) == q

\* queryset.filter(user=self.request.user)
OwnedBy(q, table, u) ==
    [id \in DOMAIN q |-> IF table[id].user = u THEN q[id] ELSE 0]

\* Distinct left out: the rows the joins repeated stay repeated.
Distinct_Off(q) == q

\* queryset.distinct()
Distinct(q) == [id \in DOMAIN q |-> IF q[id] > 0 THEN 1 ELSE 0]

\* queryset.filter(tags__id__in=ids) / filter(ingredients__id__in=ids)
RelatedIdIn(kind, q, ids) ==
    [r \in DOMAIN q |->
        q[r] * Cardinality({t \in RecipeRefs(kind, r) :
                              \E i \in DOMAIN ids : ids[i] = t})]

\* RecipeViewSet._params_to_ints: int() of every piece of qs.split(',');
\* one piece that is no integer raises ValueError for the whole call.
ParamsToInts(qs) ==
    LET toks == Split(qs)
        ok   == \A i \in DOMAIN toks : PyInt(toks[i]).ok
    IN  [ok |-> ok,
         val |-> IF ok THEN [i \in DOMAIN toks |-> PyInt(toks[i]).val] ELSE <<>>]

\* BaseRecipeAPIView.get_queryset; ok = FALSE when int(assigned_only) raises.
BaseGetQueryset(kind, u, ao) ==
    LET parsed        == IF ao = Absent THEN [ok |-> TRUE, val |-> 0] ELSE PyInt(ao)
        assigned_only == parsed.val # 0
        table         == AttrTable(kind)
        queryset      == IF assigned_only THEN AssignedOnly(kind, AllRows(table))
                         ELSE AllRows(table)
    IN  [ok |-> parsed.ok, rows |-> Distinct(OwnedBy(queryset, table, u))]

\* RecipeViewSet.get_queryset; ok = FALSE when _params_to_ints raises.
RecipeGetQueryset(u, tp, ip) ==
    LET tags_id        == IF Truthy(tp) THEN ParamsToInts(tp)
                          ELSE [ok |-> TRUE, val |-> <<>>]
        ingredients_id == IF Truthy(ip) THEN ParamsToInts(ip)
                          ELSE [ok |-> TRUE, val |-> <<>>]
        q0 == AllRows(recipes)
        q1 == IF Truthy(tp) THEN RelatedIdIn("tag", q0, tags_id.val) ELSE q0
        q2 == IF Truthy(ip) THEN RelatedIdIn("ingredient", q1, ingredients_id.val)
              ELSE q1
    IN  [ok |-> tags_id.ok /\ ingredients_id.ok,
         rows |-> Distinct(OwnedBy(q2, recipes, u))]

RECURSIVE RowCount(_, _)
RowCount(q, n) == IF n = 0 THEN 0 ELSE q[n] + RowCount(q, n - 1)

\* Every order in which the rows of q can be listed.
Listings(q) ==
    LET n == RowCount(q, Len(q))
    IN  {s \in [1..n -> DOMAIN q] :
            \A id \in DOMAIN q : Cardinality({i \in 1..n : s[i] = id}) = q[id]}

\* Lexicographic order of names (sequences of lower-case letters).
CharCode(c) == CASE c = "a" -> 97 [] c = "b" -> 98 [] c = "c" -> 99 [] OTHER -> 0

RECURSIVE NameLess(_, _)
NameLess(x, y) ==
    IF y = <<>> THEN FALSE
    ELSE IF x = <<>> THEN TRUE
    ELSE IF CharCode(x[1]) # CharCode(y[1]) THEN CharCode(x[1]) < CharCode(y[1])
    ELSE NameLess(Tail(x), Tail(y))

\* order_by('name') in the place of order_by('-name').
OrderByNameDesc_Ascending(table, q) ==
    {s \in Listings(q) :
        \A i \in 1..(Len(s) - 1) : ~NameLess(table[s[i + 1]].name, table[s[i]].name)}

\* order_by('-name'): no row is followed by a row with a greater name; the
\* database is free in the order of rows with equal names.
OrderByNameDesc(table, q) ==
    {s \in Listings(q) :
        \A i \in 1..(Len(s) - 1) : ~NameLess(table[s[i]].name, table[s[i + 1]].name)}

\* The permission of a view that lets everyone in.
IsAuthenticated_AllowAny(u) == TRUE

\* permission_classes = (IsAuthenticated,)
IsAuthenticated(u) == u \in Users

\* ------------------------------------------------------------ serializers

Kinds == {"tag", "ingredient"}

\* AttrValid of a serializer whose name field allows blank.
AttrValid_AllowBlank(payload) == "name" \in DOMAIN payload

\* TagSerializer / IngredientSerializer validation: name is required and
\* may not be blank.
AttrValid(payload) == "name" \in DOMAIN payload /\ payload.name # <<>>

\* The writable fields of RecipeSerializer.
ScalarFields == {"title", "time_minutes", "price"}
RelationFields == {"tags", "ingredients"}

\* RecipeSerializer validation: on a full update or a create the scalar
\* fields are required; a title may not be blank; every id of a relation
\* must be the id of a stored tag / ingredient (of any owner).
RecipeValid(payload, partial) ==
    /\ partial \/ ScalarFields \subseteq DOMAIN payload
    /\ "title" \in DOMAIN payload => payload.title # ""
    /\ "tags" \in DOMAIN payload => payload.tags \subseteq DOMAIN tags
    /\ "ingredients" \in DOMAIN payload => payload.ingredients \subseteq DOMAIN ingredients

\* FieldAfter of an update that treats PATCH like PUT: an omitted relation
\* is cleared whether or not the update is partial.
FieldAfter_AlwaysClear(old, payload, partial, f) ==
    IF f \in DOMAIN payload THEN payload[f]
    ELSE IF f \in {"tags", "ingredients"} THEN {}
    ELSE old[f]

\* FieldAfter of an update that treats PUT like PATCH: an omitted relation
\* is kept.
FieldAfter_AlwaysKeep(old, payload, partial, f) ==
    IF f \in DOMAIN payload THEN payload[f] ELSE old[f]

\* The value a field gets from a payload: the supplied value; for a field
\* the payload omits, the old value, except that a full update (form data)
\* reads an omitted relation as the empty list.
FieldAfter(old, payload, partial, f) ==
    IF f \in DOMAIN payload THEN payload[f]
    ELSE IF f \in RelationFields /\ ~partial THEN {}
    ELSE old[f]

\* ModelSerializer.update: the serializer's fields are written, nothing else.
SerializerUpdate(old, payload, partial) ==
    [old EXCEPT !.title        = FieldAfter(old, payload, partial, "title"),
                !.time_minutes = FieldAfter(old, payload, partial, "time_minutes"),
                !.price        = FieldAfter(old, payload, partial, "price"),
                !.tags         = FieldAfter(old, payload, partial, "tags"),
                !.ingredients  = FieldAfter(old, payload, partial, "ingredients")]

\* RecipeImageSerializer validation: the upload must decode as an image.
ImageValid(payload) == payload.image = "jpeg"

\* The reference under which an uploaded file is stored.
StoredImage(payload) == "stored"

\* ----------------------------------------------------------------- views

Idle == resp = NoResp
RecordCount == Len(tags) + Len(ingredients) + Len(recipes)
Room == RecordCount < MaxRecords

\* perform_create that saves without the user argument, so that an owner
\* in the validated data stands.
PerformCreateOwner_FromPayload(u, payload) ==
    IF "user" \in DOMAIN payload THEN payload.user ELSE u

\* perform_create: serializer.save(user=self.request.user); the keyword
\* argument overrides whatever the validated data holds for user.
PerformCreateOwner(u, payload) == u

\* A list view that gives a requester without any record a first record
\* (a get_or_create in the place of the plain query).
ListAttr_GetOrCreate(kind, u, ao) ==
    /\ resp = NoResp
    /\ UNCHANGED cmd
    /\ UNCHANGED recipes
    /\ IF u \notin Users
       THEN /\ resp' = Refusal("list", kind, u, <<ao>>, <<>>, "401", 0)
            /\ UNCHANGED <<tags, ingredients>>
       ELSE LET q == BaseGetQueryset(kind, u, ao)
                table == AttrTable(kind)
                row == [user |-> u, name |-> <<"a">>]
            IN  IF ~q.ok
                THEN /\ resp' = Refusal("list", kind, u, <<ao>>, <<>>, "500", 0)
                     /\ UNCHANGED <<tags, ingredients>>
                ELSE IF (\A id \in DOMAIN table : table[id].user # u)
                        /\ Len(tags) + Len(ingredients) + Len(recipes) < MaxRecords
                THEN /\ IF kind = "tag"
                        THEN tags' = Append(tags, row) /\ UNCHANGED ingredients
                        ELSE ingredients' = Append(ingredients, row) /\ UNCHANGED tags
                     /\ resp' = Response("list", kind, u, <<ao>>, <<>>, "200", 0,
                                         <<Len(table) + 1>>, NoImage)
                ELSE /\ UNCHANGED <<tags, ingredients>>
                     /\ \E body \in OrderByNameDesc(table, q.rows) :
                           resp' = Response("list", kind, u, <<ao>>, <<>>, "200", 0,
                                            body, NoImage)

\* GET /recipe/tags/ , GET /recipe/ingredients/
ListAttr(kind, u, ao) ==
    /\ Idle
    /\ UNCHANGED cmd
    /\ UNCHANGED db
    /\ IF ~IsAuthenticated(u)
       THEN resp' = Refusal("list", kind, u, <<ao>>, <<>>, "401", 0)
       ELSE LET q == BaseGetQueryset(kind, u, ao)
            IN  IF ~q.ok
                THEN resp' = Refusal("list", kind, u, <<ao>>, <<>>, "500", 0)
                ELSE \E body \in OrderByNameDesc(AttrTable(kind), q.rows) :
                        resp' = Response("list", kind, u, <<ao>>, <<>>, "200", 0, body, NoImage)

\* POST /recipe/tags/ , POST /recipe/ingredients/
CreateAttr(kind, u, payload) ==
    /\ Idle
    /\ UNCHANGED cmd
    /\ IF ~IsAuthenticated(u)
       THEN /\ resp' = Refusal("create", kind, u, <<>>, payload, "401", 0)
            /\ UNCHANGED db
       ELSE IF ~AttrValid(payload)
       THEN /\ resp' = Refusal("create", kind, u, <<>>, payload, "400", 0)
            /\ UNCHANGED db
       ELSE LET row == [user |-> PerformCreateOwner(u, payload), name |-> payload.name]
            IN  /\ Room
                /\ IF kind = "tag"
                   THEN /\ tags' = Append(tags, row)
                        /\ UNCHANGED ingredients
                   ELSE /\ ingredients' = Append(ingredients, row)
                        /\ UNCHANGED tags
                /\ UNCHANGED recipes
                /\ resp' = Response("create", kind, u, <<>>, payload, "201", 0,
                                    <<Len(AttrTable(kind)) + 1>>, NoImage)

\* GET /recipe/recipes/
ListRecipes(u, tp, ip) ==
    /\ Idle
    /\ UNCHANGED cmd
    /\ UNCHANGED db
    /\ IF ~IsAuthenticated(u)
       THEN resp' = Refusal("list", "recipe", u, <<tp, ip>>, <<>>, "401", 0)
       ELSE LET q == RecipeGetQueryset(u, tp, ip)
            IN  IF ~q.ok
                THEN resp' = Refusal("list", "recipe", u, <<tp, ip>>, <<>>, "500", 0)
                ELSE \E body \in Listings(q.rows) :
                        resp' = Response("list", "recipe", u, <<tp, ip>>, <<>>,
                                         "200", 0, body, NoImage)

\* POST /recipe/recipes/
CreateRecipe(u, payload) ==
    /\ Idle
    /\ UNCHANGED cmd
    /\ IF ~IsAuthenticated(u)
       THEN /\ resp' = Refusal("create", "recipe", u, <<>>, payload, "401", 0)
            /\ UNCHANGED db
       ELSE IF ~RecipeValid(payload, FALSE)
       THEN /\ resp' = Refusal("create", "recipe", u, <<>>, payload, "400", 0)
            /\ UNCHANGED db
       ELSE LET blank == [user |-> PerformCreateOwner(u, payload), title |-> "",
                          time_minutes |-> 0, price |-> 0, tags |-> {},
                          ingredients |-> {}, image |-> NoImage]
            IN  /\ Room
                /\ recipes' = Append(recipes, SerializerUpdate(blank, payload, FALSE))
                /\ UNCHANGED <<tags, ingredients>>
                /\ resp' = Response("create", "recipe", u, <<>>, payload, "201", 0,
                                    <<Len(recipes) + 1>>, NoImage)

\* get_object over Recipe.objects.all() instead of get_queryset().
GetObject_Unscoped(u, pk, tp, ip) ==
    IF pk \in DOMAIN recipes THEN "200" ELSE "404"

\* GenericAPIView.get_object: the row with the id of the URL, looked up in
\* get_queryset(); "404" when it is not there, "500" when get_queryset
\* raises or the lookup finds the row more than once.
GetObject(u, pk, tp, ip) ==
    LET q == RecipeGetQueryset(u, tp, ip)
    IN  IF ~q.ok THEN "500"
        ELSE IF pk \notin DOMAIN q.rows THEN "404"
        ELSE IF q.rows[pk] = 0 THEN "404"
        ELSE IF q.rows[pk] > 1 THEN "500"
        ELSE "200"

\* GET /recipe/recipes/{pk}/
RetrieveRecipe(u, pk, tp, ip) ==
    /\ Idle
    /\ UNCHANGED cmd
    /\ UNCHANGED db
    /\ IF ~IsAuthenticated(u)
       THEN resp' = Refusal("retrieve", "recipe", u, <<tp, ip>>, <<>>, "401", pk)
       ELSE IF GetObject(u, pk, tp, ip) # "200"
       THEN resp' = Refusal("retrieve", "recipe", u, <<tp, ip>>, <<>>,
                            GetObject(u, pk, tp, ip), pk)
       ELSE resp' = Response("retrieve", "recipe", u, <<tp, ip>>, <<>>, "200", pk, <<pk>>,
                             recipes[pk].image)

\* PATCH (partial) and PUT /recipe/recipes/{pk}/
UpdateRecipe(u, pk, payload, partial, tp, ip) ==
    LET op == IF partial THEN "partial_update" ELSE "update"
    IN  /\ Idle
        /\ UNCHANGED cmd
        /\ UNCHANGED <<tags, ingredients>>
        /\ IF ~IsAuthenticated(u)
           THEN /\ resp' = Refusal(op, "recipe", u, <<tp, ip>>, payload, "401", pk)
                /\ UNCHANGED recipes
           ELSE IF GetObject(u, pk, tp, ip) # "200"
           THEN /\ resp' = Refusal(op, "recipe", u, <<tp, ip>>, payload,
                                    GetObject(u, pk, tp, ip), pk)
                /\ UNCHANGED recipes
           ELSE IF ~RecipeValid(payload, partial)
           THEN /\ resp' = Refusal(op, "recipe", u, <<tp, ip>>, payload, "400", pk)
                /\ UNCHANGED recipes
           ELSE /\ recipes' = [recipes EXCEPT
                                 ![pk] = SerializerUpdate(recipes[pk], payload, partial)]
                /\ resp' = Response(op, "recipe", u, <<tp, ip>>, payload, "200", pk, <<pk>>,
                                    recipes[pk].image)

\* upload_image that saves without asking serializer.is_valid().
UploadImage_NoValidation(u, pk, payload, tp, ip) ==
    /\ resp = NoResp
    /\ UNCHANGED cmd
    /\ UNCHANGED <<tags, ingredients>>
    /\ IF u \notin Users
       THEN /\ resp' = Refusal("upload_image", "recipe", u, <<tp, ip>>, payload, "401", pk)
            /\ UNCHANGED recipes
       ELSE IF pk \notin DOMAIN recipes
       THEN /\ resp' = Refusal("upload_image", "recipe", u, <<tp, ip>>, payload, "404", pk)
            /\ UNCHANGED recipes
       ELSE IF recipes[pk].user # u
       THEN /\ resp' = Refusal("upload_image", "recipe", u, <<tp, ip>>, payload, "404", pk)
            /\ UNCHANGED recipes
       ELSE /\ recipes' = [recipes EXCEPT ![pk].image = "stored"]
            /\ resp' = Response("upload_image", "recipe", u, <<tp, ip>>, payload,
                                "200", pk, <<pk>>, "stored")

\* POST /recipe/recipes/{pk}/upload-image/
UploadImage(u, pk, payload, tp, ip) ==
    /\ Idle
    /\ UNCHANGED cmd
    /\ UNCHANGED <<tags, ingredients>>
    /\ IF ~IsAuthenticated(u)
       THEN /\ resp' = Refusal("upload_image", "recipe", u, <<tp, ip>>, payload, "401", pk)
            /\ UNCHANGED recipes
       ELSE IF GetObject(u, pk, tp, ip) # "200"
       THEN /\ resp' = Refusal("upload_image", "recipe", u, <<tp, ip>>, payload,
                            GetObject(u, pk, tp, ip), pk)
            /\ UNCHANGED recipes
       ELSE IF ImageValid(payload)
       THEN /\ recipes' = [recipes EXCEPT ![pk].image = StoredImage(payload)]
            /\ resp' = Response("upload_image", "recipe", u, <<tp, ip>>, payload, "200", pk, <<pk>>,
                                StoredImage(payload))
       ELSE /\ resp' = Refusal("upload_image", "recipe", u, <<tp, ip>>, payload, "400", pk)
            /\ UNCHANGED recipes

\* The client reads the response; the views keep nothing between requests.
Deliver ==
    /\ ~Idle
    /\ resp' = NoResp
    /\ UNCHANGED db
    /\ UNCHANGED cmd

\* --------------------------------------------------------- wait_for_db
\* Command.handle, one action per statement.

None == "None"
Connection == "connection"
MsgWaiting == "Waiting for Database..."
MsgUnavailable == "Database unavailabe, waiting for 1 second"
MsgAvailable == "Database available!"

\* The loop test with the test left out: the loop body never runs.
LoopContinues_Never(conn) == FALSE

\* while not db_conn
LoopContinues(conn) == conn = None

\* self.stdout.write('Waiting for Database...'); db_conn = None
WriteWaiting ==
    /\ pc = "start"
    /\ stdout' = Append(stdout, MsgWaiting)
    /\ db_conn' = None
    /\ pc' = "while"
    /\ UNCHANGED <<slept, db_up>>
    /\ UNCHANGED api

\* while not db_conn: ... ; after the loop comes the last write
LoopTest ==
    /\ pc = "while"
    /\ pc' = IF LoopContinues(db_conn) THEN "try" ELSE "available"
    /\ UNCHANGED <<db_conn, stdout, slept, db_up>>
    /\ UNCHANGED api

\* try: db_conn = connections['default']; OperationalError while the
\* server is down.
Attempt ==
    /\ pc = "try"
    /\ IF db_up
       THEN /\ db_conn' = Connection
            /\ pc' = "while"
       ELSE /\ slept < MaxWaits
            /\ db_conn' = db_conn
            /\ pc' = "except"
    /\ UNCHANGED <<stdout, slept, db_up>>
    /\ UNCHANGED api

\* except OperationalError: self.stdout.write('Database unavailabe, ...')
WriteUnavailable ==
    /\ pc = "except"
    /\ stdout' = Append(stdout, MsgUnavailable)
    /\ pc' = "sleep"
    /\ UNCHANGED <<db_conn, slept, db_up>>
    /\ UNCHANGED api

\* time.sleep(1), then back to the loop test
Sleep ==
    /\ pc = "sleep"
    /\ slept' = slept + 1
    /\ pc' = "while"
    /\ UNCHANGED <<db_conn, stdout, db_up>>
    /\ UNCHANGED api

\* self.stdout.write(self.style.SUCCESS('Database available!')); return
WriteAvailable ==
    /\ pc = "available"
    /\ stdout' = Append(stdout, MsgAvailable)
    /\ pc' = "done"
    /\ UNCHANGED <<db_conn, slept, db_up>>
    /\ UNCHANGED api

\* The statements of the command.
Handle ==
    \/ WriteWaiting
    \/ LoopTest
    \/ Attempt
    \/ WriteUnavailable
    \/ Sleep
    \/ WriteAvailable

\* The database server starts or stops accepting connections.
DbUp ==
    /\ pc # "done"
    /\ ~db_up
    /\ db_up' = TRUE
    /\ UNCHANGED <<pc, db_conn, stdout, slept>>
    /\ UNCHANGED api

DbDown ==
    /\ pc # "done"
    /\ db_up
    /\ db_up' = FALSE
    /\ UNCHANGED <<pc, db_conn, stdout, slept>>
    /\ UNCHANGED api

Init ==
    /\ tags = <<>>
    /\ ingredients = <<>>
    /\ recipes = <<>>
    /\ resp = NoResp
    /\ pc = "start"
    /\ db_conn = None
    /\ stdout = <<>>
    /\ slept = 0
    /\ db_up = FALSE

\* ---------------------------------------------------------------- inputs
\* The requests the clients send.  Each specification below draws the
\* requests from its own sets, wide in the fields its claims are about and
\* narrow in the others, so that every one of them can be explored in full.

Names == {<<"a">>, <<"b">>}

\* Bodies of POST /recipe/tags/: a name, a blank name, a client-supplied
\* owner, no name at all.
TagPayloads ==
    {[name |-> n] : n \in Names \cup {<<>>}}
        \cup {[name |-> <<"a">>, user |-> v] : v \in Users}
        \cup {<<>>}

IngredientPayloads ==
    {[name |-> <<"a">>], [name |-> <<>>]}
        \cup {[name |-> <<"a">>, user |-> v] : v \in Users}

AttrPayloads(kind) == IF kind = "tag" THEN TagPayloads ELSE IngredientPayloads

\* Values of ?assigned_only=
AssignedOnlyParams == {Absent, <<"0">>, <<"1">>, <<"-", "1">>, <<"x">>, <<>>}

\* Values of ?tags= and of ?ingredients=
TagIdParams ==
    {Absent, <<>>, <<"1">>, <<"2">>, <<"1", ",", "2">>, <<"1", "2">>,
     <<"1", ",">>, <<"x">>}
IngredientIdParams == {Absent, <<"1">>, <<"1", ",", "1">>, <<"1", ",", "x">>}

\* The query string <<tags, ingredients>> of a request that sends neither.
PlainQuery == <<Absent, Absent>>

\* The ids a detail URL names: those of the stored recipes and one more.
Pks == 1..(Len(recipes) + 1)

TagIdSets == {{}, {1}, {2}, {1, 2}}
IngredientIdSets == {{}, {1}}

NewScalars == [title |-> "t1", time_minutes |-> 10, price |-> 5]
PutScalars == [title |-> "t2", time_minutes |-> 20, price |-> 7]

\* f with the field k set to v (k need not be a field of f).
With(f, k, v) ==
    [x \in DOMAIN f \cup {k} |-> IF x = k THEN v ELSE f[x]]

\* base, alone and with every choice of tags and of ingredients.
RelationPayloads(base) ==
    {base}
        \cup {With(base, "tags", S) : S \in TagIdSets}
        \cup {With(base, "ingredients", T) : T \in IngredientIdSets}
        \cup {With(With(base, "tags", S), "ingredients", T) :
                 S \in TagIdSets, T \in IngredientIdSets}

\* Bodies no serializer accepts: a blank title, a tag that is not stored.
BadPayloads(base) == {With(base, "title", ""), With(base, "tags", {9})}

OwnerPayloads(base) == {With(base, "user", v) : v \in Users}

ImagePayloads == {[image |-> "jpeg"], [image |-> "noImage"]}

\* ------------------------------------------------- scoping specification
\* Every list and create request, with every filter value; updates change
\* the relations only, so that recipes differ in owner, tags and ingredients.

ScopeCreatePayloads ==
    RelationPayloads(NewScalars) \cup BadPayloads(NewScalars)
        \cup {[title |-> "t1"]}
ScopePatchPayloads ==
    {[tags |-> S] : S \in TagIdSets} \cup {[ingredients |-> T] : T \in IngredientIdSets}
ScopePutPayloads == {NewScalars}

Next ==
    \/ \E kind \in Kinds, u \in Requesters, ao \in AssignedOnlyParams :
          ListAttr(kind, u, ao)
    \/ \E kind \in Kinds, u \in Requesters :
          \E payload \in AttrPayloads(kind) : CreateAttr(kind, u, payload)
    \/ \E u \in Requesters, tp \in TagIdParams, ip \in IngredientIdParams :
          ListRecipes(u, tp, ip)
    \/ \E u \in Requesters, payload \in ScopeCreatePayloads :
          CreateRecipe(u, payload)
    \/ \E u \in Requesters, pk \in Pks : RetrieveRecipe(u, pk, Absent, Absent)
    \/ \E u \in Requesters, pk \in Pks, payload \in ScopePatchPayloads :
          UpdateRecipe(u, pk, payload, TRUE, Absent, Absent)
    \/ \E u \in Requesters, pk \in Pks, payload \in ScopePutPayloads :
          UpdateRecipe(u, pk, payload, FALSE, Absent, Absent)
    \/ Deliver

Spec == Init /\ [][Next]_vars

\* -------------------------------------------------- detail specification
\* Every route of a single recipe (retrieve, PATCH, PUT, upload-image), by
\* its owner and by the other user, with and without a query string, and
\* payloads that name an owner.  Records differ in owner, tags and image;
\* names and scalar fields are fixed.

DetailQueries == {PlainQuery, <<<<"1">>, Absent>>, <<<<"x">>, Absent>>}
DetailAttrPayloads == {[name |-> <<"a">>]} \cup OwnerPayloads([name |-> <<"a">>])
DetailCreatePayloads ==
    {NewScalars, With(NewScalars, "tags", {1})} \cup OwnerPayloads(NewScalars)
DetailPatchPayloads == {[tags |-> {}], [tags |-> {1}]} \cup OwnerPayloads(<<>>)
DetailPutPayloads == {NewScalars} \cup OwnerPayloads(NewScalars)

NextDetail ==
    \/ \E kind \in Kinds, u \in Users, payload \in DetailAttrPayloads :
          CreateAttr(kind, u, payload)
    \/ \E u \in Users, payload \in DetailCreatePayloads :
          CreateRecipe(u, payload)
    \/ \E u \in Requesters, pk \in Pks, q \in DetailQueries :
          RetrieveRecipe(u, pk, q[1], q[2])
    \/ \E u \in Users, pk \in Pks, payload \in DetailPatchPayloads,
          q \in DetailQueries :
          UpdateRecipe(u, pk, payload, TRUE, q[1], q[2])
    \/ \E u \in Users, pk \in Pks, payload \in DetailPutPayloads,
          q \in DetailQueries :
          UpdateRecipe(u, pk, payload, FALSE, q[1], q[2])
    \/ \E u \in Users, pk \in Pks, payload \in ImagePayloads,
          q \in DetailQueries :
          UploadImage(u, pk, payload, q[1], q[2])
    \/ Deliver

SpecDetail == Init /\ [][NextDetail]_vars

\* -------------------------------------------------- update specification
\* PATCH and PUT with and without title, tags and ingredients in the
\* payload.  Recipes differ in owner, scalar fields and relations; tags and
\* ingredients are created by u1 under one name, and no image is sent.

UpdateQueries == {PlainQuery, <<<<"1">>, Absent>>}
UpdateCreatePayloads ==
    {NewScalars, With(NewScalars, "tags", {1}),
     With(With(NewScalars, "tags", {1}), "ingredients", {1})}
UpdatePatchPayloads ==
    {<<>>, [title |-> "t2"], [title |-> "t2", tags |-> {2}],
     [tags |-> {1, 2}], [tags |-> {}], [ingredients |-> {}], [title |-> ""]}
UpdatePutPayloads ==
    {PutScalars, With(PutScalars, "tags", {2}), With(PutScalars, "ingredients", {1}),
     [title |-> "t2"]}

NextUpdate ==
    \/ \E kind \in Kinds : CreateAttr(kind, "u1", [name |-> <<"a">>])
    \/ \E u \in Users, payload \in UpdateCreatePayloads :
          CreateRecipe(u, payload)
    \/ \E u \in Users, pk \in Pks, payload \in UpdatePatchPayloads,
          q \in UpdateQueries :
          UpdateRecipe(u, pk, payload, TRUE, q[1], q[2])
    \/ \E u \in Users, pk \in Pks, payload \in UpdatePutPayloads,
          q \in UpdateQueries :
          UpdateRecipe(u, pk, payload, FALSE, q[1], q[2])
    \/ Deliver

SpecUpdate == Init /\ [][NextUpdate]_vars

\* ------------------------------------------------------- claims: scoping

Owner(kind, id) ==
    IF kind = "recipe" THEN recipes[id].user ELSE AttrTable(kind)[id].user

BodySet == {resp.body[i] : i \in DOMAIN resp.body}
BodyHasNoRepeat ==
    \A i \in DOMAIN resp.body, j \in DOMAIN resp.body :
        i # j => resp.body[i] # resp.body[j]

\* C1: ownership isolation.  Every record a list response holds is owned by
\* the user who asked, whatever filter parameters came with the request: a
\* record of U1 is in no list answered to U2 # U1.
C1_OwnershipIsolation ==
    resp.op = "list" =>
        \A i \in DOMAIN resp.body : Owner(resp.kind, resp.body[i]) = resp.user

\* C1 witness: u2 lists tags with assigned_only=1 and gets a tag, while a
\* tag of u1 that a recipe references is stored as well.
C1_Witness ==
    /\ resp.op = "list" /\ resp.kind = "tag" /\ resp.user = "u2"
    /\ resp.query = <<(<<"1">>)>>
    /\ resp.body # <<>>
    /\ \E t \in DOMAIN tags :
          tags[t].user = "u1" /\ \E r \in DOMAIN recipes : t \in recipes[r].tags

\* C2: an unauthenticated list or create request is answered 401, whatever
\* its parameters (a malformed filter value included); the response holds
\* no record and the stored records are the same after it as before.
C2_UnauthenticatedRefused ==
    [][(resp'.user = Anon /\ resp'.op \in {"list", "create"}) =>
          /\ resp'.status = "401"
          /\ resp'.body = <<>>
          /\ db' = db]_vars

\* C2 witness: an anonymous list request with a malformed assigned_only was
\* refused while there were tags to return.
C2_Witness ==
    /\ resp.user = Anon /\ resp.op = "list" /\ resp.kind = "tag"
    /\ resp.query = <<(<<"x">>)>>
    /\ resp.status = "401"
    /\ tags # <<>>

\* C4: a create request of an authenticated user whose name (tag,
\* ingredient) or title (recipe) is blank is answered 400 and stores nothing.
C4_BlankNameRejected ==
    [][/\ \A kind \in Kinds, u \in Users, payload \in TagPayloads \cup IngredientPayloads :
             ("name" \in DOMAIN payload /\ payload.name = <<>>
                 /\ CreateAttr(kind, u, payload))
                => (resp'.status = "400" /\ db' = db)
       /\ \A u \in Users, payload \in ScopeCreatePayloads :
             ("title" \in DOMAIN payload /\ payload.title = ""
                 /\ CreateRecipe(u, payload))
                => (resp'.status = "400" /\ db' = db)]_vars

\* C4 witness: a create request was answered 400 and the table is as it was.
C4_Witness ==
    /\ resp.op = "create" /\ resp.kind = "ingredient" /\ resp.status = "400"
    /\ resp.user \in Users
    /\ Len(ingredients) = 1

\* The records of `kind` that some recipe (of any owner) references.
Referenced(kind) ==
    {id \in DOMAIN AttrTable(kind) :
        \E r \in DOMAIN recipes : id \in RecipeRefs(kind, r)}
OwnRecords(kind, u) ==
    {id \in DOMAIN AttrTable(kind) : AttrTable(kind)[id].user = u}

\* C5: a tag / ingredient list with assigned_only=1 holds exactly the
\* requester's records that at least one recipe references, each once; with
\* assigned_only absent or 0 it holds all the requester's records, each once.
C5_AssignedOnly ==
    (resp.op = "list" /\ resp.kind \in Kinds /\ resp.user \in Users) =>
        /\ resp.query = <<(<<"1">>)>> =>
              /\ resp.status = "200"
              /\ BodySet = OwnRecords(resp.kind, resp.user) \cap Referenced(resp.kind)
              /\ BodyHasNoRepeat
        /\ resp.query \in {<<Absent>>, <<(<<"0">>)>>} =>
              /\ resp.status = "200"
              /\ BodySet = OwnRecords(resp.kind, resp.user)
              /\ BodyHasNoRepeat

\* C5 witness: assigned_only=1 returned one tag, once, that two recipes
\* reference, one of them a recipe of another user.
C5_Witness ==
    /\ resp.op = "list" /\ resp.kind = "tag" /\ resp.query = <<(<<"1">>)>>
    /\ Len(resp.body) = 1
    /\ Cardinality({r \in DOMAIN recipes : resp.body[1] \in recipes[r].tags}) = 2
    /\ \E r \in DOMAIN recipes :
          resp.body[1] \in recipes[r].tags /\ recipes[r].user # resp.user

\* The ids a well-formed filter value names, written out value by value.
IdsNamed(param) ==
    CASE param = <<"1">> -> {1}
      [] param = <<"2">> -> {2}
      [] param = <<"1", ",", "2">> -> {1, 2}
      [] param = <<"1", ",", "1">> -> {1}
      [] param = <<"1", "2">> -> {12}
      [] OTHER -> {}
WellFormed ==
    {<<"1">>, <<"2">>, <<"1", ",", "2">>, <<"1", ",", "1">>, <<"1", "2">>}

\* Recipe r passes the filter value of a relation: no value, or a value
\* naming at least one id the recipe is associated with.
Passes(param, refs) ==
    param \in WellFormed => refs \cap IdsNamed(param) # {}

\* C6: a recipe list filtered by tags and / or ingredients holds exactly the
\* requester's recipes associated with at least one of the named tags and,
\* when both filters are given, also with at least one of the named
\* ingredients; each recipe once, however many of the ids it matches.
C6_RecipeFilter ==
    (/\ resp.op = "list" /\ resp.kind = "recipe" /\ resp.user \in Users
     /\ resp.query[1] \in WellFormed \cup {Absent}
     /\ resp.query[2] \in WellFormed \cup {Absent}) =>
        /\ resp.status = "200"
        /\ BodyHasNoRepeat
        /\ BodySet = {r \in DOMAIN recipes :
                        /\ recipes[r].user = resp.user
                        /\ Passes(resp.query[1], recipes[r].tags)
                        /\ Passes(resp.query[2], recipes[r].ingredients)}

\* C6 witness: tags=1,2 returned, once, a recipe that has both tags.
C6_Witness ==
    /\ resp.op = "list" /\ resp.kind = "recipe" /\ resp.status = "200"
    /\ resp.query[1] = <<"1", ",", "2">>
    /\ \E i \in DOMAIN resp.body : recipes[resp.body[i]].tags = {1, 2}

\* -------------------------------------------------------- claims: detail

\* The owners of the rows a table had before the step are the same after it.
OwnersKept(old, new) ==
    /\ Len(new) >= Len(old)
    /\ \A id \in DOMAIN old : new[id].user = old[id].user

\* A row the step added to a table was added by a create request on that
\* table and is owned by the authenticated user who sent it.
AddedByRequester(kind, old, new) ==
    Len(new) > Len(old) =>
        /\ Len(new) = Len(old) + 1
        /\ resp'.op = "create" /\ resp'.kind = kind
        /\ resp'.user \in Users
        /\ new[Len(new)].user = resp'.user

\* C3: every tag, ingredient and recipe is owned by the authenticated user
\* whose create request made it, whatever owner the payload names, and no
\* later request (PATCH, PUT, upload-image, with or without an owner in the
\* payload) changes the owner of a stored record.
C3_OwnerIsCreator ==
    [][/\ OwnersKept(tags, tags')
       /\ OwnersKept(ingredients, ingredients')
       /\ OwnersKept(recipes, recipes')
       /\ AddedByRequester("tag", tags, tags')
       /\ AddedByRequester("ingredient", ingredients, ingredients')
       /\ AddedByRequester("recipe", recipes, recipes')]_vars

\* C3 witness: u1 created a recipe with a payload that names u2 as owner,
\* and the stored recipe is owned by u1.
C3_Witness ==
    /\ resp.op = "create" /\ resp.kind = "recipe" /\ resp.status = "201"
    /\ resp.user = "u1"
    /\ "user" \in DOMAIN resp.data
    /\ resp.data.user = "u2"
    /\ recipes[resp.body[1]].user = "u1"

DetailOps == {"retrieve", "partial_update", "update", "upload_image"}

\* The query string of the request names no filter, or filters that recipe
\* pk passes.
LookupFinds(query, pk) ==
    /\ query[1] \in WellFormed \cup {Absent}
    /\ query[2] \in WellFormed \cup {Absent}
    /\ Passes(query[1], recipes[pk].tags)
    /\ Passes(query[2], recipes[pk].ingredients)

\* C9: upload-image on a recipe of the requester that the lookup finds: a
\* decodable image is answered 200 with the image field set, and the stored
\* recipe then holds that image reference and is otherwise as before; a
\* payload that is no image is answered 400 and changes nothing.
C9_UploadImage ==
    [][(/\ resp'.op = "upload_image"
        /\ resp'.pk \in DOMAIN recipes
        /\ recipes[resp'.pk].user = resp'.user
        /\ LookupFinds(resp'.query, resp'.pk)) =>
          IF resp'.data.image = "jpeg"
          THEN /\ resp'.status = "200"
               /\ resp'.image # NoImage
               /\ recipes' = [recipes EXCEPT ![resp'.pk].image = resp'.image]
               /\ UNCHANGED <<tags, ingredients>>
          ELSE /\ resp'.status = "400"
               /\ db' = db]_vars

\* C9 witness: an upload to the requester's recipe was answered 200 and
\* the recipe holds the image of the response.
C9_Witness ==
    /\ resp.op = "upload_image" /\ resp.status = "200"
    /\ resp.data.image = "jpeg"
    /\ recipes[resp.pk].user = resp.user
    /\ recipes[resp.pk].image = resp.image
    /\ resp.image # NoImage

\* A detail request of an authenticated user for a recipe of another user.
ForeignRequest(r) ==
    /\ r.op \in DetailOps /\ r.user \in Users
    /\ r.pk \in DOMAIN recipes
    /\ recipes[r.pk].user # r.user

\* A detail request of an authenticated user for an id no recipe has.
MissingRequest(r) ==
    /\ r.op \in DetailOps /\ r.user \in Users
    /\ r.pk \notin DOMAIN recipes

\* C10 as stated: every detail request for a recipe of another user is
\* answered 404 and changes nothing.
C10_ForeignAlways404 ==
    [][ForeignRequest(resp') => (resp'.status = "404" /\ db' = db)]_vars

\* The query string holds a tags or ingredients value with a piece that is
\* no integer.
Malformed(query) ==
    \E i \in {1, 2} : query[i] \notin WellFormed \cup {Absent, <<>>}

\* C10 amended: a detail request for a recipe of another user changes
\* nothing and is answered exactly as the same request for an id that does
\* not exist: 404, unless its tags / ingredients query value has a piece
\* that is no integer, in which case the request fails with the parsing
\* error (500).
C10_ForeignAsMissing ==
    [][(ForeignRequest(resp') \/ MissingRequest(resp')) =>
          /\ db' = db
          /\ resp'.body = <<>>
          /\ resp'.image = NoImage
          /\ resp'.status = IF Malformed(resp'.query) THEN "500" ELSE "404"]_vars

\* C10 witness: u2 asked to PATCH the tags of a recipe of u1 that has a
\* tag, was answered 404, and the recipe still has its tag.
C10_Witness ==
    /\ resp.op = "partial_update" /\ resp.status = "404"
    /\ resp.user = "u2"
    /\ resp.data = [tags |-> {}]
    /\ resp.pk \in DOMAIN recipes
    /\ recipes[resp.pk].user = "u1"
    /\ recipes[resp.pk].tags = {1}

\* -------------------------------------------------------- claims: update

SerializerFields == {"title", "time_minutes", "price", "tags", "ingredients"}

\* The step changed recipe pk alone, and of it only the fields in `changed`.
OnlyFieldsChanged(pk, changed) ==
    /\ UNCHANGED <<tags, ingredients>>
    /\ Len(recipes') = Len(recipes)
    /\ \A id \in DOMAIN recipes : id # pk => recipes'[id] = recipes[id]
    /\ \A f \in (SerializerFields \cup {"user", "image"}) \ changed :
          recipes'[pk][f] = recipes[pk][f]

\* C7: an accepted PATCH is a PATCH of the requester's own recipe; it sets
\* every field the payload supplies to the supplied value and leaves every
\* other field (omitted scalar fields, omitted relations, owner, image) and
\* every other record as it was.  The payload {title, tags: [2]}, sent
\* without a query string to the requester's recipe, is accepted.
C7_PatchFrame ==
    [][/\ (resp'.op = "partial_update" /\ resp'.status = "200") =>
             /\ resp'.pk \in DOMAIN recipes
             /\ recipes[resp'.pk].user = resp'.user
             /\ \A f \in SerializerFields \cap DOMAIN resp'.data :
                   recipes'[resp'.pk][f] = resp'.data[f]
             /\ OnlyFieldsChanged(resp'.pk, SerializerFields \cap DOMAIN resp'.data)
       /\ (/\ resp'.op = "partial_update"
           /\ resp'.data = [title |-> "t2", tags |-> {2}]
           /\ resp'.query = PlainQuery
           /\ resp'.pk \in DOMAIN recipes
           /\ Len(tags) >= 2) =>
             (recipes[resp'.pk].user = resp'.user => resp'.status = "200")]_vars

\* C7 witness: PATCH {title: t2, tags: [2]} was accepted; the recipe has
\* the new title and exactly tag 2, and still the time and price it was
\* created with.
C7_Witness ==
    /\ resp.op = "partial_update" /\ resp.status = "200"
    /\ resp.data = [title |-> "t2", tags |-> {2}]
    /\ recipes[resp.pk].title = "t2"
    /\ recipes[resp.pk].tags = {2}
    /\ recipes[resp.pk].time_minutes = 10
    /\ recipes[resp.pk].price = 5

\* C8: an accepted PUT whose payload holds title, time_minutes and price and
\* no tags sets the three fields to the payload's values and leaves the
\* recipe without any tag; sent without a query string to the requester's
\* recipe, such a PUT is accepted.
C8_PutClearsTags ==
    [][/\ (/\ resp'.op = "update" /\ resp'.status = "200"
           /\ "tags" \notin DOMAIN resp'.data) =>
             /\ recipes[resp'.pk].user = resp'.user
             /\ recipes'[resp'.pk].title = resp'.data.title
             /\ recipes'[resp'.pk].time_minutes = resp'.data.time_minutes
             /\ recipes'[resp'.pk].price = resp'.data.price
             /\ recipes'[resp'.pk].tags = {}
       /\ (/\ resp'.op = "update"
           /\ resp'.data = PutScalars
           /\ resp'.query = PlainQuery
           /\ resp'.pk \in DOMAIN recipes) =>
             (recipes[resp'.pk].user = resp'.user => resp'.status = "200")]_vars

\* C8 witness: PUT {title, time_minutes, price} was accepted while two tags
\* are stored; the recipe holds the payload's values and no tag.
C8_Witness ==
    /\ resp.op = "update" /\ resp.status = "200"
    /\ resp.data = PutScalars
    /\ Len(tags) = 2
    /\ recipes[resp.pk].title = "t2"
    /\ recipes[resp.pk].time_minutes = 20
    /\ recipes[resp.pk].price = 7
    /\ recipes[resp.pk].tags = {}

\* ---------------------------------------------------------------- lists
\* Records with names of different lengths and a common first letter, of
\* both users, referenced or not by recipes; every list request on them.

ListNames == {<<"a">>, <<"a", "b">>, <<"b">>}
ListAttrPayloads(kind) ==
    IF kind = "tag" THEN {[name |-> n] : n \in ListNames}
    ELSE {[name |-> <<"a">>], [name |-> <<"b">>]}
ListCreatePayloads == {NewScalars, With(NewScalars, "tags", {1})}
ListAssignedOnly == {Absent, <<"1">>, <<"x">>}
ListQueries == {PlainQuery, <<<<"1">>, Absent>>, <<<<"x">>, Absent>>}

NextList ==
    \/ \E kind \in Kinds, u \in Users :
          \E payload \in ListAttrPayloads(kind) : CreateAttr(kind, u, payload)
    \/ \E u \in Users, payload \in ListCreatePayloads : CreateRecipe(u, payload)
    \/ \E kind \in Kinds, u \in Requesters, ao \in ListAssignedOnly :
          ListAttr(kind, u, ao)
    \/ \E u \in Requesters, q \in ListQueries : ListRecipes(u, q[1], q[2])
    \/ Deliver

SpecList == Init /\ [][NextList]_vars

\* ---------------------------------------------------------- claims: lists

\* The names of the model from the greatest to the smallest in
\* lexicographic order.
DescendingNames == << <<"b">>, <<"a", "b">>, <<"a">> >>
RankOf(name) == CHOOSE i \in DOMAIN DescendingNames : DescendingNames[i] = name

\* C11: a tag or ingredient list that is answered holds the requester's
\* records by descending name: of two adjacent entries the first name is
\* not smaller than the second in lexicographic order, and no stored record
\* appears twice.
C11_NameDescending ==
    (resp.op = "list" /\ resp.kind \in Kinds /\ resp.status = "200") =>
        LET table == AttrTable(resp.kind)
        IN  /\ \A i \in DOMAIN resp.body : table[resp.body[i]].user = resp.user
            /\ \A i \in 1..(Len(resp.body) - 1) :
                  RankOf(table[resp.body[i]].name)
                      <= RankOf(table[resp.body[i + 1]].name)
            /\ BodyHasNoRepeat

\* C11 witness: the tags a, b, ab were created in this order and are listed
\* as b, ab, a.
C11_Witness ==
    /\ resp.op = "list" /\ resp.kind = "tag" /\ resp.status = "200"
    /\ Len(tags) = 3
    /\ tags[1].name = <<"a">> /\ tags[2].name = <<"b">> /\ tags[3].name = <<"a", "b">>
    /\ resp.body = <<2, 3, 1>>

\* C12 as stated: the plain recipe list (no tags or ingredients filter) is
\* the requester's recipes by descending id: it holds every recipe of the
\* requester once, and every entry has a greater id than the entry after it.
C12_RecipesByIdDescending ==
    (/\ resp.op = "list" /\ resp.kind = "recipe" /\ resp.status = "200"
     /\ resp.query = PlainQuery) =>
        /\ BodySet = {r \in DOMAIN recipes : recipes[r].user = resp.user}
        /\ \A i \in 1..(Len(resp.body) - 1) : resp.body[i] > resp.body[i + 1]

\* The values of ?assigned_only= that int() refuses, written out.
BadAssignedOnly == {<<"x">>, <<>>}

\* The list request fails in the parsing of its filter values.
FilterFails(r) ==
    IF r.kind = "recipe" THEN Malformed(r.query) ELSE r.query[1] \in BadAssignedOnly

\* C13: a list request on tags, ingredients or recipes changes no stored
\* tag, ingredient or recipe and none of their relations, whether it is
\* answered with a result, refused (401) or fails; and an authenticated
\* list request fails (500, no result) exactly when its assigned_only value
\* or a piece of its tags / ingredients value is no integer.
C13_ListsChangeNothing ==
    [][resp'.op = "list" =>
          /\ db' = db
          /\ resp'.status \in {"200", "401", "500"}
          /\ resp'.status # "200" => resp'.body = <<>>
          /\ resp'.user \in Users => (resp'.status = "500" <=> FilterFails(resp'))]_vars

\* C13 witness: with a recipe stored, its owner's list request with
\* ?tags=x has failed, and the recipe is still stored with its tags;
\* the failed request has no result.
C13_Witness ==
    /\ resp.op = "list" /\ resp.kind = "recipe" /\ resp.status = "500"
    /\ resp.query[1] = <<"x">>
    /\ resp.body = <<>>
    /\ \E r \in DOMAIN recipes : recipes[r].user = resp.user /\ recipes[r].tags # {}

\* ---------------------------------------------------------- wait_for_db
\* One run of the command against a server that goes up and down.  The
\* command is a running process: a statement that can be executed is
\* executed (weak fairness of Handle); nothing is assumed of the server.

NextWait ==
    \/ WriteWaiting
    \/ LoopTest
    \/ Attempt
    \/ WriteUnavailable
    \/ Sleep
    \/ WriteAvailable
    \/ DbUp
    \/ DbDown

SpecWait == Init /\ [][NextWait]_vars /\ WF_vars(Handle)

\* ---------------------------------------------------- claims: wait_for_db

\* The number of times msg was written.
Written(msg) == Cardinality({i \in DOMAIN stdout : stdout[i] = msg})

\* 'Database available!' is written only with a connection in hand and at
\* most once; every failed attempt so far has its message, and all but
\* possibly the one in progress have their second of sleep; a run that has
\* terminated has a connection and has written the message, as the last
\* line.
WaitInv ==
    /\ Written(MsgAvailable) > 0 => db_conn # None
    /\ Written(MsgAvailable) <= 1
    /\ Written(MsgUnavailable) = slept + (IF pc = "sleep" THEN 1 ELSE 0)
    /\ pc = "done" => /\ db_conn # None
                      /\ Written(MsgAvailable) = 1
                      /\ stdout[Len(stdout)] = MsgAvailable

\* A failed attempt is followed by the write of the message, that by one
\* second of sleep, and that by the loop test, which leads to another
\* attempt as long as there is no connection.
WaitStep ==
    /\ (pc = "try" /\ pc' # pc) =>
          \/ db_conn' # None /\ pc' = "while"
          \/ db_conn' = None /\ pc' = "except"
    /\ (pc = "except" /\ pc' # pc) =>
          (pc' = "sleep" /\ stdout' = Append(stdout, MsgUnavailable))
    /\ (pc = "sleep" /\ pc' # pc) => (pc' = "while" /\ slept' = slept + 1)
    /\ (pc = "while" /\ pc' # pc) =>
          pc' = IF db_conn = None THEN "try" ELSE "available"

\* C14: wait_for_db never writes 'Database available!' before it has a
\* connection; each attempt that raises OperationalError is followed by the
\* message, a one-second sleep and another attempt; once an attempt has
\* succeeded the command terminates, having written 'Database available!'
\* exactly once; while every attempt fails it does not terminate.
C14_WaitForDb ==
    /\ []WaitInv
    /\ [][WaitStep]_vars
    /\ (db_conn # None) ~> (pc = "done" /\ Written(MsgAvailable) = 1)
    /\ [](db_conn = None) => [](pc # "done")

\* C14 witness: the command has terminated after two failed attempts, with
\* two seconds slept and the four lines it wrote in their order.
C14_Witness ==
    /\ pc = "done"
    /\ db_conn = Connection
    /\ slept = 2
    /\ stdout = <<MsgWaiting, MsgUnavailable, MsgUnavailable, MsgAvailable>>

====
